---- MODULE Spec2Model ----
(***************************************************************************)
(* A model of qrgen: the batching CSV reader (chunker.rs), the pipeline    *)
(* that fans each batch out over parallel workers (generator.rs) and the   *)
(* overflow-checked geometry and PNG rasterisation (exporter.rs).          *)
(***************************************************************************)
EXTENDS Integers, Sequences, FiniteSets, TLC

VARIABLES
    inner_rows,   \* Chunker.inner: the rows the csv reader will produce, in order
    inner_pos,    \* Chunker.inner: number of rows the reader has consumed
    chunk_size,   \* Chunker.chunk_size / ProcessingConfig.chunk_size
    yielded,      \* the batches Chunker::next returned as Some, in order
    calls,        \* one record per call of Chunker::next
    ended,        \* Chunker::next has returned None
    g_call,       \* a call of Checked::checked_size or Checked::checked_length
    g_out,        \* what the call returned, once it has returned
    x_in,         \* the arguments of a call of Exporter::export_png
    x_out,        \* what the call did: its result, the writer, the canvas
    exporter,     \* an Exporter value (exporter.rs:13-20), as export leaves it
    disk,         \* the files Exporter::export can see: file |-> content
    exports,      \* one record per call of Exporter::export
    files,        \* Generator.files: the input sources, in order
    format,       \* OutputConfig.format
    file_idx,     \* generate: index of the source being processed
    pc,           \* generate / process_file: where the main thread is
    tasks,        \* the closures par_iter().for_each() has been given and not dropped
    status,       \* per source: "pending", "completed" or "failed"
    log,          \* the warn! records of generate and of the workers
    fs            \* the output files that exist

vars == <<inner_rows, inner_pos, chunk_size, yielded, calls, ended, g_call, g_out,
          x_in, x_out, exporter, disk, exports,
          files, format, file_idx, pc, tasks, status, log, fs>>

chunkerVars == <<inner_rows, inner_pos, chunk_size, yielded, calls, ended>>
geometryVars == <<g_call, g_out>>
exportVars == <<x_in, x_out, exporter, disk, exports>>
pipelineVars == <<files, format, file_idx, pc, tasks, status, log, fs>>

\* No Exporter has been built.
ExporterIdle ==
    /\ exporter = [fn |-> "none"]
    /\ disk = <<>>
    /\ exports = <<>>

\* The pipeline before Generator::generate is called.
PipelineIdle ==
    /\ files = <<>>
    /\ format = "SVG"
    /\ file_idx = 1
    /\ pc = "idle"
    /\ tasks = <<>>
    /\ status = <<>>
    /\ log = {}
    /\ fs = {}

(***************************************************************************)
(* Option<T>: None is the empty sequence, Some(v) the one-element one.     *)
(***************************************************************************)
None == <<>>
Some(v) == <<v>>
IsSome(o) == o # <<>>
Unwrap(o) == o[1]

Min(a, b) == IF a <= b THEN a ELSE b
Max2Len(a, b) == IF Len(a) >= Len(b) THEN Len(a) ELSE Len(b)

(***************************************************************************)
(* Bounds of the batching model.                                           *)
(***************************************************************************)
MaxRows == 5
MaxChunk == 3

(***************************************************************************)
(* chunker.rs                                                              *)
(***************************************************************************)
\* A row of the source: its line number and whether the csv reader decodes it
\* (Ok(record)) or reports it as an error (Err(e)).
IsOk(r) == r.ok

\* chunker.rs:37 with an off-by-one: the loop stops one row late.
AtChunkEndLate(total, c) == total = c

\* chunker.rs:37: `if total == self.chunk_size - 1 { break; }`
AtChunkEnd(total, c) == total = c - 1

\* chunker.rs:28-40: the loop over self.inner.records().enumerate(). `pos` is the
\* reader position, `total` the enumerate index, `chunks` the vector built so
\* far, `warns` the number of warn! calls made for failed rows.
RECURSIVE ReadLoop(_, _, _, _, _, _)
ReadLoop(rows, pos, total, chunks, warns, c) ==
    IF pos >= Len(rows)
    THEN [chunks |-> chunks, pos |-> pos, reads |-> total, warns |-> warns]
    ELSE LET result == rows[pos + 1]
             chunks2 == IF IsOk(result) THEN Append(chunks, result) ELSE chunks
             warns2 == IF IsOk(result) THEN warns ELSE warns + 1
         IN  IF AtChunkEnd(total, c)
             THEN [chunks |-> chunks2, pos |-> pos + 1, reads |-> total + 1,
                   warns |-> warns2]
             ELSE ReadLoop(rows, pos + 1, total + 1, chunks2, warns2, c)

\* chunker.rs:25-49: Chunker::next. `item` is the Option returned.
ChunkerNextResult(rows, pos, c) ==
    LET l == ReadLoop(rows, pos, 0, <<>>, 0, c)
    IN  [item |-> IF l.chunks = <<>> THEN None ELSE Some(l.chunks),
         pos |-> l.pos, reads |-> l.reads, warns |-> l.warns]

\* generator.rs:57 `for chunk in chunks`: the loop calls Chunker::next until it
\* first returns None.
ChunkerNext ==
    /\ ~ended
    /\ LET r == ChunkerNextResult(inner_rows, inner_pos, chunk_size)
       IN  /\ inner_pos' = r.pos
           /\ calls' = Append(calls, [start |-> inner_pos, reads |-> r.reads,
                                      warns |-> r.warns, item |-> r.item])
           /\ IF IsSome(r.item)
              THEN /\ yielded' = Append(yielded, Unwrap(r.item))
                   /\ ended' = FALSE
              ELSE /\ yielded' = yielded
                   /\ ended' = TRUE
    /\ UNCHANGED <<inner_rows, chunk_size>>
    /\ UNCHANGED <<geometryVars, exportVars, pipelineVars>>

\* The sources of at most MaxRows rows, each row decodable or not.
RowSources ==
    UNION { { [i \in 1..n |-> [line |-> i, ok |-> okf[i]]] :
                okf \in [1..n -> BOOLEAN] } : n \in 0..MaxRows }

\* chunker.rs:14-19 Chunker::new over a fresh reader; main.rs:171-178 keeps
\* chunk_size positive.
InitChunker ==
    /\ inner_rows \in RowSources
    /\ chunk_size \in 1..MaxChunk
    /\ inner_pos = 0
    /\ yielded = <<>>
    /\ calls = <<>>
    /\ ended = FALSE
    /\ g_call = [fn |-> "none"]
    /\ g_out = <<"idle">>
    /\ x_in = [fn |-> "none"]
    /\ x_out = [res |-> "idle"]
    /\ ExporterIdle
    /\ PipelineIdle

NextChunker == ChunkerNext

SpecChunker == InitChunker /\ [][NextChunker]_vars

(***************************************************************************)
(* i32 and usize arithmetic (the std operations exporter.rs calls).        *)
(* TLC's integers are 32 bits wide, so no operator below ever forms a      *)
(* value outside the i32 range: overflow is decided by division, as a      *)
(* checked multiplication without a wider type does.                       *)
(***************************************************************************)
I32Max == 2147483647
I32Min == -I32Max - 1

\* Rust's `/` on i32: the quotient truncated toward zero (y # 0, and not
\* I32Min / -1, which Rust rejects).
TruncDiv(x, y) ==
    IF y > 0
    THEN IF x < 0 /\ x % y # 0 THEN (x \div y) + 1 ELSE x \div y
    ELSE IF y = I32Min
         THEN IF x = I32Min THEN 1 ELSE 0
         ELSE IF x > 0 /\ x % (-y) # 0
              THEN -((x \div (-y)))
              ELSE IF x <= 0 /\ x % (-y) # 0
                   THEN -((x \div (-y)) + 1)
                   ELSE -(x \div (-y))

\* i32::checked_add
CheckedAdd(a, b) ==
    IF b >= 0
    THEN IF a > I32Max - b THEN None ELSE Some(a + b)
    ELSE IF a < I32Min - b THEN None ELSE Some(a + b)

\* i32::wrapping_add, for operands whose sum is at least I32Min.
WrappingAdd(a, b) ==
    IF b >= 0 /\ a > I32Max - b
    THEN Some((a - I32Max - 1) + (b - I32Max - 1))
    ELSE Some(a + b)

\* i32::checked_mul
CheckedMul(a, b) ==
    LET overflow ==
            IF a > 0
            THEN IF b > 0 THEN a > I32Max \div b ELSE b < TruncDiv(I32Min, a)
            ELSE IF b > 0
                 THEN a < TruncDiv(I32Min, b)
                 ELSE a # 0 /\ b < TruncDiv(I32Max, a)
    IN  IF overflow THEN None ELSE Some(a * b)

\* A usize (64 bits) as four 16-bit limbs, least significant first.
Limb16 == 256 * 256
UsizeOf(v) == <<v % Limb16, v \div Limb16, 0, 0>>
UsizeMax == <<Limb16 - 1, Limb16 - 1, Limb16 - 1, Limb16 - 1>>

\* i32::try_from(usize): Ok exactly when the value is at most i32::MAX.
I32TryFromUsize(u) ==
    IF u[4] = 0 /\ u[3] = 0 /\ u[2] < Limb16 \div 2
    THEN Some(u[2] * Limb16 + u[1])
    ELSE None

(***************************************************************************)
(* exporter.rs: trait Checked for Option<i32>                              *)
(***************************************************************************)
\* exporter.rs:189 with the addition left unchecked (wrapping).
checked_size_wrapping_add(self, scale, border) ==
    LET b == CheckedMul(border, 2)
    IN  IF IsSome(b)
        THEN IF ~IsSome(self) THEN None
             ELSE LET sum == WrappingAdd(Unwrap(self), Unwrap(b))
                  IN  CheckedMul(Unwrap(sum), scale)
        ELSE None

\* exporter.rs:187-193
\*   if let Some(b) = border.checked_mul(2) {
\*       Some(self?.checked_add(b)?.checked_mul(scale)?)
\*   } else { None }
checked_size(self, scale, border) ==
    LET b == CheckedMul(border, 2)
    IN  IF IsSome(b)
        THEN IF ~IsSome(self) THEN None
             ELSE LET sum == CheckedAdd(Unwrap(self), Unwrap(b))
                  IN  IF ~IsSome(sum) THEN None
                      ELSE CheckedMul(Unwrap(sum), scale)
        ELSE None

\* exporter.rs:197 with the squaring forgotten: self * colour_depth.
checked_length_unsquared(self, colour_depth) ==
    LET cd == I32TryFromUsize(colour_depth)
    IN  IF IsSome(cd)
        THEN IF ~IsSome(self) THEN None
             ELSE CheckedMul(Unwrap(self), Unwrap(cd))
        ELSE None

\* exporter.rs:195-201
\*   if let Ok(cd) = i32::try_from(colour_depth) {
\*       Some(self?.checked_mul(self?)?.checked_mul(cd)?)
\*   } else { None }
checked_length(self, colour_depth) ==
    LET cd == I32TryFromUsize(colour_depth)
    IN  IF IsSome(cd)
        THEN IF ~IsSome(self) THEN None
             ELSE LET sq == CheckedMul(Unwrap(self), Unwrap(self))
                  IN  IF ~IsSome(sq) THEN None
                      ELSE CheckedMul(Unwrap(sq), Unwrap(cd))
        ELSE None

\* The call `self.checked_size(scale, border)` returns.
CheckedSizeCall ==
    /\ g_call.fn = "checked_size"
    /\ g_out = <<"idle">>
    /\ g_out' = <<"returned", checked_size(g_call.self, g_call.scale, g_call.border)>>
    /\ UNCHANGED g_call
    /\ UNCHANGED <<chunkerVars, exportVars, pipelineVars>>

\* The call `self.checked_length(colour_depth)` returns.
CheckedLengthCall ==
    /\ g_call.fn = "checked_length"
    /\ g_out = <<"idle">>
    /\ g_out' = <<"returned", checked_length(g_call.self, g_call.colour_depth)>>
    /\ UNCHANGED g_call
    /\ UNCHANGED <<chunkerVars, exportVars, pipelineVars>>

\* How far from each boundary value the sampled arguments reach.
Edge == 2

\* Sampled i32 values: small ones, the sizes of QR codes and of the documented
\* example, the square-root thresholds of checked_length, and the values
\* around i32::MAX / d.
I32Samples ==
    (0..Edge)
        \cup {21, 177, 290}
        \cup {26754, 26755, 46340, 46341}
        \cup { (I32Max \div d) - k : d \in 1..(Edge + 1), k \in 0..Edge }
        \cup { (I32Max \div d) + k : d \in 2..(Edge + 1), k \in 1..Edge }

UsizeSamples ==
    { UsizeOf(v) : v \in (0..(Edge + 2)) \cup {22, I32Max} }
        \cup { <<0, Limb16 \div 2, 0, 0>>, <<3, 0, 1, 0>>, UsizeMax }

SizeCalls ==
    [fn : {"checked_size"},
     self : {None} \cup { Some(n) : n \in I32Samples \ {0} },
     scale : I32Samples \ {0},
     border : I32Samples]

LengthCalls ==
    [fn : {"checked_length"},
     self : {None} \cup { Some(p) : p \in I32Samples \cup { -q : q \in I32Samples } },
     colour_depth : UsizeSamples]

InitGeometry ==
    /\ g_call \in SizeCalls \cup LengthCalls
    /\ g_out = <<"idle">>
    /\ inner_rows = <<>>
    /\ chunk_size = 1
    /\ inner_pos = 0
    /\ yielded = <<>>
    /\ calls = <<>>
    /\ ended = FALSE
    /\ x_in = [fn |-> "none"]
    /\ x_out = [res |-> "idle"]
    /\ ExporterIdle
    /\ PipelineIdle

NextGeometry == CheckedSizeCall \/ CheckedLengthCall

SpecGeometry == InitGeometry /\ [][NextGeometry]_vars

(***************************************************************************)
(* exporter.rs: Exporter::export_png                                       *)
(***************************************************************************)
\* Bounds of the rasterisation model: the side of the matrix, the number of
\* set modules, the border and the scale of the canvases that are painted.
MaxModules == 2
MaxDark == 2
MaxBorder == 1
MaxScale == 2

\* u8::MAX, the largest border and scale (exporter.rs:16, exporter.rs:19).
U8Max == 255
\* The highest QR version (main.rs:155) and the side of its code.
QrMaxVersion == 40
QrMaxSize == 4 * QrMaxVersion + 17
\* png::ColorType::RGB.samples() (exporter.rs:105-106).
ColourTypeSamples == 3
\* A scale at which the largest code's square fits an i32 and its byte length
\* does not: (177 + 2*255) * 39 = 26793, and 26793^2 * 3 > i32::MAX.
LengthOverflowScale == 30 + 9

\* qrcodegen::QrCode::get_module as export_png uses it (exporter.rs:154):
\* false outside the matrix, the module's colour inside. A code is its side
\* and the set of its dark modules.
get_module(qr, x, y) ==
    0 <= x /\ x < qr.size /\ 0 <= y /\ y < qr.size /\ <<x, y>> \in qr.dark

\* exporter.rs:139-141 offset_fn
offset_fn(x, y, s, cts) == (x * cts) + (y * (s * cts))

\* exporter.rs:145 (0..size).tuple_combinations(): the pairs (i, j), i < j.
\* The loop only ever sets bytes to 0, so its result does not depend on the
\* order of the points and they are kept as a set.
TupleCombinations(size) ==
    { point \in (0..(size - 1)) \X (0..(size - 1)) : point[1] < point[2] }

\* exporter.rs:144-146 without the chained diagonal.
PointsWithoutDiagonal(size) == TupleCombinations(size)

\* exporter.rs:144-146: the combinations chained with (0..size).zip(0..size).
Points(size) ==
    TupleCombinations(size) \cup { <<k, k>> : k \in 0..(size - 1) }

\* exporter.rs:150-159 and 161-169: one pixel looked up; the offsets of the
\* three samples set to 0 when its module is set (156-158), none otherwise.
PaintIfSet(qr, x, y, size, scale, border) ==
    IF get_module(qr, TruncDiv(x, scale) - border, TruncDiv(y, scale) - border)
    THEN LET offset == offset_fn(x, y, size, ColourTypeSamples)
         IN  {offset, offset + 1, offset + 2}
    ELSE {}

\* exporter.rs:148-170: the loop over the points; each point paints (x, y) =
\* (point.1, point.0) and then (x, y) = (point.0, point.1). The offsets set
\* to 0 by the whole loop.
PaintLoop(qr, points, size, scale, border) ==
    UNION { PaintIfSet(qr, point[2], point[1], size, scale, border)
              \cup PaintIfSet(qr, point[1], point[2], size, scale, border) :
            point \in points }

\* exporter.rs:173-175 with the PNG signature written before the bounds are
\* looked at.
OutOfBoundsAfterHeader(writer) ==
    [res |-> "err_out_of_bounds",
     writer |-> Append(writer, [chunk |-> "signature"]),
     header_written |-> TRUE, canvas |-> None]

\* exporter.rs:173-175: `Err("size or data length are out of bounds.")?`; the
\* writer is dropped untouched.
OutOfBounds(writer) ==
    [res |-> "err_out_of_bounds", writer |-> writer,
     header_written |-> FALSE, canvas |-> None]

\* exporter.rs:93-178: export_png. `writer` is what the writer holds, `io`
\* names the write that fails, if any. The result records the writer's
\* content, whether the header was written and the canvas, if one was
\* allocated, as it was handed to write_image_data: vec![255; data_length]
\* (123) with the offsets the loop painted set to 0.
export_png(writer, qr, border_u8, scale_u8, io) ==
    LET scale == scale_u8
        border == border_u8
        size == checked_size(Some(qr.size), scale, border)
        data_length == checked_length(size, UsizeOf(ColourTypeSamples))
    IN  IF IsSome(size) /\ IsSome(data_length)
        THEN IF io = "header"
             THEN [res |-> "err_header", writer |-> writer,
                   header_written |-> FALSE, canvas |-> None]
             ELSE LET sz == Unwrap(size)
                      header == [chunk |-> "IHDR", width |-> sz, height |-> sz,
                                 colour |-> "RGB", depth |-> 8]
                      painted == PaintLoop(qr, Points(sz), sz, scale, border)
                      data == [o \in 0..(Unwrap(data_length) - 1) |->
                                  IF o \in painted THEN 0 ELSE 255]
                  IN  IF io = "data"
                      THEN [res |-> "err_data", writer |-> Append(writer, header),
                            header_written |-> TRUE, canvas |-> Some(data)]
                      ELSE [res |-> "ok",
                            writer |-> Append(Append(writer, header),
                                              [chunk |-> "IDAT", data |-> data]),
                            header_written |-> TRUE, canvas |-> Some(data)]
        ELSE OutOfBounds(writer)

\* A call of export_png returns.
ExportPng ==
    /\ x_in.fn = "export_png"
    /\ x_out.res = "idle"
    /\ x_out' = export_png(<<>>, x_in.qr, x_in.border, x_in.scale, x_in.io)
    /\ UNCHANGED <<x_in, exporter, disk, exports>>
    /\ UNCHANGED <<chunkerVars, geometryVars, pipelineVars>>

\* The codes of side n with at most MaxDark dark modules.
Codes(n) ==
    { [size |-> n, dark |-> d] :
        d \in { m \in SUBSET ((0..(n - 1)) \X (0..(n - 1))) : Cardinality(m) <= MaxDark } }

\* The side of the largest canvas the model paints.
MaxPainted == (MaxModules + 2 * MaxBorder) * MaxScale

\* The calls the model makes: every small code, border and scale, and the
\* largest code, border and scales, kept when the canvas is at most
\* MaxPainted pixels wide or the geometry is out of bounds.
ExportCalls ==
    { c \in [fn : {"export_png"},
             qr : (UNION { Codes(n) : n \in 1..MaxModules })
                    \cup { [size |-> QrMaxSize, dark |-> {<<0, 0>>}] },
             border : (0..MaxBorder) \cup {U8Max},
             scale : (1..MaxScale) \cup {LengthOverflowScale, U8Max},
             io : {"none", "header", "data"}] :
        LET size == checked_size(Some(c.qr.size), c.scale, c.border)
        IN  \/ ~IsSome(size)
            \/ ~IsSome(checked_length(size, UsizeOf(ColourTypeSamples)))
            \/ Unwrap(size) <= MaxPainted }

InitExport ==
    /\ x_in \in ExportCalls
    /\ x_out = [res |-> "idle"]
    /\ ExporterIdle
    /\ g_call = [fn |-> "none"]
    /\ g_out = <<"idle">>
    /\ inner_rows = <<>>
    /\ chunk_size = 1
    /\ inner_pos = 0
    /\ yielded = <<>>
    /\ calls = <<>>
    /\ ended = FALSE
    /\ PipelineIdle

NextExport == ExportPng

SpecExport == InitExport /\ [][NextExport]_vars

(***************************************************************************)
(* std::path::PathBuf as exporter.rs:42-53 and generator.rs:108-120 use    *)
(* it. A path, a file name and an identifier are sequences of characters;  *)
(* the extensions "svg" and "png" are single characters of that alphabet.  *)
(***************************************************************************)
Sep == "/"
Dot == "."

\* Path::is_absolute on Unix: the path starts with the separator.
IsAbsolute(p) == p # <<>> /\ p[1] = Sep

\* PathBuf::push: an absolute `path` replaces self; otherwise a separator is
\* added when self is not empty and does not end with one, then `path`.
push(self, path) ==
    IF IsAbsolute(path)
    THEN path
    ELSE IF self # <<>> /\ self[Len(self)] # Sep
         THEN self \o <<Sep>> \o path
         ELSE self \o path

\* The first index of the component of p that ends at index e.
RECURSIVE ComponentStart(_, _)
ComponentStart(p, e) ==
    IF e = 0 \/ p[e] = Sep THEN e + 1 ELSE ComponentStart(p, e - 1)

\* Path::components().next_back() over p[1..e]: the bounds <<start, end>> of
\* the last component, trailing separators and non-leading "." components
\* skipped; <<>> when there is none (the empty path, the root, a leading ".").
RECURSIVE LastComponent(_, _)
LastComponent(p, e) ==
    IF e = 0 THEN <<>>
    ELSE IF p[e] = Sep THEN LastComponent(p, e - 1)
    ELSE LET s == ComponentStart(p, e)
         IN  IF SubSeq(p, s, e) = <<Dot>>
             THEN IF s = 1 THEN <<>> ELSE LastComponent(p, s - 1)
             ELSE <<s, e>>

\* Path::file_name: the last component when it is a normal one (not "..").
file_name(p) ==
    LET c == LastComponent(p, Len(p))
    IN  IF c = <<>> \/ SubSeq(p, c[1], c[2]) = <<Dot, Dot>> THEN None ELSE Some(c)

\* The index in `name` of its last ".", 0 when it has none.
RECURSIVE LastDot(_, _)
LastDot(name, i) ==
    IF i = 0 THEN 0 ELSE IF name[i] = Dot THEN i ELSE LastDot(name, i - 1)

\* Path::file_stem, as the index in p where the stem ends: the file name up
\* to its last ".", the whole name when it has no "." or only a leading one.
file_stem_end(p) ==
    LET c == Unwrap(file_name(p))
        name == SubSeq(p, c[1], c[2])
        d == LastDot(name, Len(name))
    IN  IF d <= 1 THEN c[2] ELSE c[1] + d - 2

\* PathBuf::set_extension: nothing when the path has no file name; otherwise
\* the path is truncated right after the file stem and "." and the extension
\* are appended.
set_extension(p, extension) ==
    IF ~IsSome(file_name(p))
    THEN p
    ELSE LET stem == SubSeq(p, 1, file_stem_end(p))
         IN  IF extension # <<>> THEN stem \o <<Dot>> \o extension ELSE stem

\* exporter.rs:44-53 and generator.rs:111-120: the extension of a format.
Extension(fmt) == IF fmt = "SVG" THEN <<"svg">> ELSE <<"png">>

\* exporter.rs:42-53 and generator.rs:108-120: the path of the output file:
\* the output directory, the file name pushed onto it, the extension set.
OutputPath(output, name, fmt) == set_extension(push(output, name), Extension(fmt))

(***************************************************************************)
(* exporter.rs: Exporter::new, Exporter::export and Exporter::export_svg   *)
(***************************************************************************)
\* How many times export is called in a run of the model.
MaxExports == 2

\* OutputConfig.output (generator.rs:235) / Exporter.output (exporter.rs:15)
\* as the program is given it: the output directory of the run.
OutputDir == <<"o">>

\* The working directory of the run, as the list of the names that lead to
\* it from the root.
Cwd == << <<"w">> >>

\* The directories that exist, each as the list of names that lead to it from
\* the root: the root, the working directory and the output directory in it.
Directories == {<<>>, Cwd, Cwd \o <<OutputDir>>}

\* Path resolution, one component: from the directory `dir`, an empty
\* component or "." stays, ".." goes to the parent (the root is its own), a
\* name enters the directory of that name, None when there is none.
Enter(dir, name) ==
    IF name = <<>> \/ name = <<Dot>> THEN Some(dir)
    ELSE IF name = <<Dot, Dot>>
         THEN Some(IF dir = <<>> THEN dir ELSE SubSeq(dir, 1, Len(dir) - 1))
         ELSE IF Append(dir, name) \in Directories THEN Some(Append(dir, name))
              ELSE None

\* Path resolution of p from its index i on, `dir` being the directory reached
\* and `name` the part of the component read so far. Every component before
\* the last must lead to a directory; the last must be a name that is not a
\* directory's. The file as the list of names from the root, None when the
\* path cannot be opened as a file.
RECURSIVE Walk(_, _, _, _)
Walk(p, i, dir, name) ==
    IF i > Len(p)
    THEN IF name \in {<<>>, <<Dot>>, <<Dot, Dot>>} \/ Append(dir, name) \in Directories
         THEN None
         ELSE Some(Append(dir, name))
    ELSE IF p[i] = Sep
         THEN IF IsSome(Enter(dir, name))
              THEN Walk(p, i + 1, Unwrap(Enter(dir, name)), <<>>)
              ELSE None
         ELSE Walk(p, i + 1, dir, Append(name, p[i]))

\* The file a path names, resolved from the root when the path is absolute
\* and from the working directory otherwise.
ResolveFile(p) == Walk(p, 1, IF IsAbsolute(p) THEN <<>> ELSE Cwd, <<>>)

\* exporter.rs:55-59: OpenOptions::open can succeed only for a path that
\* resolves to a file: its directories exist and it is not a directory.
CanOpen(p) == IsSome(ResolveFile(p))

\* A write at offset 0 of a file opened without truncate: the bytes written
\* replace the first bytes of the file and what lay after them stays.
Overwrite(old, bytes) ==
    IF Len(bytes) >= Len(old) THEN bytes
    ELSE bytes \o SubSeq(old, Len(bytes) + 1, Len(old))

\* exporter.rs:55-59: write(true).create(true).append(false): the file `f`
\* is created empty when it does not exist and left as it is when it does.
Opened(dsk, f) == IF f \in DOMAIN dsk THEN dsk ELSE dsk @@ (f :> <<>>)

\* qrcodegen::QrCode::to_svg_string as export_svg calls it (exporter.rs:75):
\* the header with the side of the view box, one path command per dark
\* module, row by row, and the closing tags. Each element is a run of bytes.
to_svg_string(qr, border) ==
    LET cells == [k \in 1..(qr.size * qr.size) |->
                     <<(k - 1) % qr.size, (k - 1) \div qr.size>>]
        IsDark(c) == get_module(qr, c[1], c[2])
        dark == SelectSeq(cells, IsDark)
    IN  <<[svg |-> "viewBox", x |-> 0, y |-> qr.size + 2 * border]>>
            \o [k \in 1..Len(dark) |->
                   [svg |-> "M", x |-> dark[k][1] + border, y |-> dark[k][2] + border]]
            \o <<[svg |-> "end", x |-> 0, y |-> 0]>>

\* exporter.rs:69-91: export_svg. `old` is what the opened file holds, `io`
\* names the write that fails, if any, and `partial` how many elements a
\* failing write_all had written. The result and the content of the file.
export_svg(old, qr, border, io, partial) ==
    LET svg == to_svg_string(qr, border)
    IN  IF io = "markup"
        THEN [res |-> "err_markup", content |-> Overwrite(old, SubSeq(svg, 1, partial))]
        ELSE [res |-> "ok", content |-> Overwrite(old, svg)]

\* Exporter::new (exporter.rs:23-39)
ExporterNew(args) ==
    [qr_code |-> args.qr_code, output |-> args.output, border |-> args.border,
     format |-> args.format, file_name |-> args.file_name, scale |-> args.scale]

\* exporter.rs:63: what export_png wrote lands at offset 0 of the file;
\* `png` is what export_png returned.
PngContent(old, png) == [res |-> png.res, content |-> Overwrite(old, png.writer)]

\* exporter.rs:61-64: the opened file, which holds `old`, is written by
\* export_svg or by export_png. The result and the content of the file.
ExportWrite(self, old, io, partial) ==
    IF self.format = "SVG"
    THEN export_svg(old, self.qr_code, self.border, io, partial)
    ELSE PngContent(old, export_png(<<>>, self.qr_code, self.border, self.scale, io))

\* exporter.rs:61-66: what export leaves once the file `f` of `opened`, which
\* the path `output` names, has been written with the outcome `written`.
ExportResult(self, output, f, opened, written) ==
    [res |-> written.res, path |-> output, file |-> Some(f),
     self |-> [self EXCEPT !.output = output],
     disk |-> [opened EXCEPT ![f] = written.content]]

\* exporter.rs:55-66: export once the path `output` has been opened as the
\* file `f`.
ExportOpened(self, output, f, dsk, io, partial) ==
    ExportResult(self, output, f, Opened(dsk, f),
                 ExportWrite(self, Opened(dsk, f)[f], io, partial))

\* exporter.rs:55-66: export from the open on; `output` is self.output after
\* the push and set_extension of 42-53.
ExportAt(self, output, dsk, io, partial) ==
    IF io = "open" \/ ~CanOpen(output)
    THEN [res |-> "err_open", path |-> output, file |-> None,
          self |-> [self EXCEPT !.output = output], disk |-> dsk]
    ELSE ExportOpened(self, output, Unwrap(ResolveFile(output)), dsk, io, partial)

\* exporter.rs:41-67: Exporter::export on the Exporter `self` and the files
\* `dsk`. The file name is pushed onto self.output and the extension set
\* (42-53), the file is opened (55-59), then written by export_svg or
\* export_png (61-64). The result, the path opened, self and the files after.
export(self, dsk, io, partial) ==
    ExportAt(self, OutputPath(self.output, self.file_name, self.format),
             dsk, io, partial)

\* The writes of export that can fail, per format.
IoOutcomes(fmt) ==
    IF fmt = "SVG" THEN {"none", "open", "markup"} ELSE {"none", "open", "header", "data"}

\* One call of export: on the Exporter of the run as the call before left it
\* ("same"), or on a new Exporter built from the same arguments ("new").
Export(which, io, partial) ==
    /\ x_in.fn = "Exporter::new"
    /\ Len(exports) < MaxExports
    /\ io \in IoOutcomes(x_in.format)
    /\ partial = 0 \/ io = "markup"
    /\ \E self \in {IF which = "new" THEN ExporterNew(x_in) ELSE exporter} :
       \E r \in {export(self, disk, io, partial)} :
          /\ exporter' = r.self
          /\ disk' = r.disk
          /\ exports' = Append(exports, [self |-> self, io |-> io, res |-> r.res,
                                         path |-> r.path, file |-> r.file,
                                         before |-> disk,
                                         after |-> r.disk])
    /\ UNCHANGED <<x_in, x_out>>
    /\ UNCHANGED <<chunkerVars, geometryVars, pipelineVars>>

\* The codes exported: two codes of one module, one of four, and the largest.
ExporterCodes ==
    { [size |-> 1, dark |-> {}], [size |-> 1, dark |-> {<<0, 0>>}],
      [size |-> 2, dark |-> {<<0, 0>>, <<1, 0>>}],
      [size |-> QrMaxSize, dark |-> {<<0, 0>>}] }

\* The file names (field 0 of a row): plain, with a dot, absolute, with a
\* parent component, leaving the output directory and entering it again, empty.
FileNames ==
    { <<"a">>, <<"b">>, <<"a", Dot, "b">>, <<"a", Dot, "c">>, <<Sep, "a">>,
      <<Dot, Dot, Sep, "a">>, <<Dot, Dot, Sep>> \o OutputDir \o <<Sep, "a">>, <<>> }

\* The arguments of Exporter::new: a raster export is kept when its canvas is
\* at most MaxPainted pixels wide or its geometry is out of bounds, a vector
\* export when the code is a small one.
ExporterArgs ==
    { a \in [fn : {"Exporter::new"}, qr_code : ExporterCodes, output : {OutputDir},
             border : {0, 1, U8Max}, format : {"SVG", "PNG"},
             file_name : FileNames, scale : {1, LengthOverflowScale, U8Max}] :
        IF a.format = "SVG"
        THEN a.qr_code.size < QrMaxSize /\ a.scale = 1
        ELSE LET size == checked_size(Some(a.qr_code.size), a.scale, a.border)
             IN  \/ ~IsSome(size)
                 \/ ~IsSome(checked_length(size, UsizeOf(ColourTypeSamples)))
                 \/ Unwrap(size) <= MaxPainted }

\* What the target file holds before the run: nothing (it does not exist),
\* or what an earlier run left there: an empty file or the markup of a code.
PriorDisks(a) ==
    {<<>>} \cup
    { f :> c :
        f \in { Unwrap(o) : o \in {ResolveFile(OutputPath(a.output, a.file_name,
                                                            a.format))} \ {None} },
        c \in {<<>>} \cup { to_svg_string(q, 0) :
                              q \in { k \in ExporterCodes : k.size < QrMaxSize } } }

\* How many elements a failing write_all can have written.
MaxPartial == 1

InitExporter ==
    /\ x_in \in ExporterArgs
    /\ exporter = ExporterNew(x_in)
    /\ disk \in PriorDisks(x_in)
    /\ exports = <<>>
    /\ x_out = [res |-> "idle"]
    /\ g_call = [fn |-> "none"]
    /\ g_out = <<"idle">>
    /\ inner_rows = <<>>
    /\ chunk_size = 1
    /\ inner_pos = 0
    /\ yielded = <<>>
    /\ calls = <<>>
    /\ ended = FALSE
    /\ PipelineIdle

NextExporter ==
    \E which \in {"same", "new"}, io \in {"none", "open", "header", "data", "markup"},
       partial \in 0..MaxPartial :
        Export(which, io, partial)

SpecExporter == InitExporter /\ [][NextExporter]_vars

(***************************************************************************)
(* generator.rs: Generator::generate, process_file and the worker closure  *)
(***************************************************************************)
\* Bounds of the pipeline model: the number of sources, the rows of a run of
\* one source (each further source counts as a row), and the chunk size.
MaxFiles == 2
MaxPipeRows == 3
MaxPipeChunk == 2

\* A closure is over: it returned, it panicked, or it was never run because
\* the batch was unwinding.
Terminal(t) == t.st \in {"done", "failed", "panicked", "abandoned"}

\* The tasks of batch k of source f.
BatchTasks(ts, f, k) == { i \in 1..Len(ts) : ts[i].file = f /\ ts[i].batch = k }

\* generator.rs:58-70 with the batch not awaited: the loop goes on at once.
BatchNotAwaited(ts, f, k) == TRUE

\* generator.rs:58-70: par_iter().for_each() returns when every closure it
\* ran has returned or panicked.
BatchDrained(ts, f, k) == \A i \in BatchTasks(ts, f, k) : Terminal(ts[i])

\* generator.rs:60 with the filter letting every non-empty record through.
EligibleNonEmpty(record) == record.len >= 1

\* generator.rs:60 `.filter(|record| record.len() >= 2)`
Eligible(record) == record.len >= 2

\* generator.rs:58-61: one closure per eligible record of the chunk.
RECURSIVE FanOut(_, _, _)
FanOut(chunk, f, k) ==
    IF chunk = <<>> THEN <<>>
    ELSE LET record == Head(chunk)
             rest == FanOut(Tail(chunk), f, k)
         IN  IF Eligible(record)
             THEN <<[file |-> f, batch |-> k, line |-> record.line,
                     id |-> record.id, st |-> "queued", io |-> "none"]>> \o rest
             ELSE rest

\* generator.rs:63-69: the warn! of a closure whose result is an error; it
\* names the record by record[0] and prints the error.
TaskWarning(t, err) ==
    [kind |-> "record", file |-> t.file, line |-> t.line, id |-> t.id, err |-> err]

\* generator.rs:108-120: the path save opens for the record of a task.
TaskPath(t, fmt) == OutputPath(OutputDir, t.id, fmt)

\* generator.rs:44-48 with the error of process_file ending the loop.
OpenSourceOrStop ==
    /\ pc = "generate"
    /\ file_idx <= Len(files)
    /\ IF files[file_idx].openable
       THEN /\ inner_rows' = files[file_idx].rows
            /\ inner_pos' = 0
            /\ yielded' = <<>>
            /\ calls' = <<>>
            /\ ended' = FALSE
            /\ pc' = "chunks"
            /\ UNCHANGED <<file_idx, status, log>>
       ELSE /\ log' = log \cup {[kind |-> "source", file |-> file_idx, line |-> 0,
                                   id |-> <<>>, err |-> "open"]}
            /\ status' = [status EXCEPT ![file_idx] = "failed"]
            /\ file_idx' = file_idx + 1
            /\ pc' = "done"
            /\ UNCHANGED <<inner_rows, inner_pos, yielded, calls, ended>>
    /\ UNCHANGED <<chunk_size, files, format, tasks, fs>>
    /\ UNCHANGED <<geometryVars, exportVars>>

\* generator.rs:44-45, 52-55, 76-84: generate takes the next source and
\* process_file opens it; a source that cannot be opened is logged
\* (generator.rs:47) and the loop goes on.
OpenSource ==
    /\ pc = "generate"
    /\ file_idx <= Len(files)
    /\ IF files[file_idx].openable
       THEN /\ inner_rows' = files[file_idx].rows
            /\ inner_pos' = 0
            /\ yielded' = <<>>
            /\ calls' = <<>>
            /\ ended' = FALSE
            /\ pc' = "chunks"
            /\ UNCHANGED <<file_idx, status, log>>
       ELSE /\ log' = log \cup {[kind |-> "source", file |-> file_idx, line |-> 0,
                                   id |-> <<>>, err |-> "open"]}
            /\ status' = [status EXCEPT ![file_idx] = "failed"]
            /\ file_idx' = file_idx + 1
            /\ UNCHANGED <<inner_rows, inner_pos, yielded, calls, ended, pc>>
    /\ UNCHANGED <<chunk_size, files, format, tasks, fs>>
    /\ UNCHANGED <<geometryVars, exportVars>>

\* generator.rs:57: the for loop asks the Chunker for the next chunk. Some:
\* the chunk is fanned out (58-61). None: process_file returns Ok (73) and
\* generate traces the source as complete (46).
PullChunk ==
    /\ pc = "chunks"
    /\ LET r == ChunkerNextResult(inner_rows, inner_pos, chunk_size)
       IN  /\ inner_pos' = r.pos
           /\ calls' = Append(calls, [start |-> inner_pos, reads |-> r.reads,
                                      warns |-> r.warns, item |-> r.item])
           /\ IF IsSome(r.item)
              THEN /\ yielded' = Append(yielded, Unwrap(r.item))
                   /\ tasks' = tasks \o FanOut(Unwrap(r.item), file_idx,
                                                Len(yielded) + 1)
                   /\ pc' = "fanout"
                   /\ UNCHANGED <<ended, status, file_idx>>
              ELSE /\ ended' = TRUE
                   /\ status' = [status EXCEPT ![file_idx] = "completed"]
                   /\ file_idx' = file_idx + 1
                   /\ pc' = "generate"
                   /\ UNCHANGED <<yielded, tasks>>
    /\ UNCHANGED <<inner_rows, chunk_size, files, format, log, fs>>
    /\ UNCHANGED <<geometryVars, exportVars>>

\* generator.rs:62-69 with the error of encode logged and not returned: the
\* closure goes on to save.
TaskEncodeNoSkip(i) ==
    /\ tasks[i].st = "queued"
    /\ \E encoded \in BOOLEAN :
          /\ tasks' = [tasks EXCEPT ![i].st = "encoded"]
          /\ log' = IF encoded THEN log ELSE log \cup {TaskWarning(tasks[i], "encode")}
    /\ UNCHANGED <<files, format, file_idx, pc, status, fs>>
    /\ UNCHANGED <<chunkerVars, geometryVars, exportVars>>

\* generator.rs:62, 86-105: a worker runs encode for a record. On Err the
\* closure logs the warning (63-69) and returns.
TaskEncode(i) ==
    /\ tasks[i].st = "queued"
    /\ \E encoded \in BOOLEAN :
          IF encoded
          THEN /\ tasks' = [tasks EXCEPT ![i].st = "encoded"]
               /\ UNCHANGED log
          ELSE /\ tasks' = [tasks EXCEPT ![i].st = "failed", ![i].io = "encode"]
               /\ log' = log \cup {TaskWarning(tasks[i], "encode")}
    /\ UNCHANGED <<files, format, file_idx, pc, status, fs>>
    /\ UNCHANGED <<chunkerVars, geometryVars, exportVars>>

\* generator.rs:107-126: save opens the output file (write, create). On Err
\* the closure logs the warning and returns.
TaskOpen(i) ==
    /\ tasks[i].st = "encoded"
    /\ \E opened \in BOOLEAN :
          IF opened
          THEN /\ tasks' = [tasks EXCEPT ![i].st = "opened"]
               /\ fs' = fs \cup {TaskPath(tasks[i], format)}
               /\ UNCHANGED log
          ELSE /\ tasks' = [tasks EXCEPT ![i].st = "failed", ![i].io = "open"]
               /\ log' = log \cup {TaskWarning(tasks[i], "open")}
               /\ UNCHANGED fs
    /\ UNCHANGED <<files, format, file_idx, pc, status>>
    /\ UNCHANGED <<chunkerVars, geometryVars, exportVars>>

\* generator.rs:168-177: write_svg. A failed write_all is returned as Err
\* and the closure logs the warning.
TaskWriteSvg(i) ==
    /\ tasks[i].st = "opened"
    /\ format = "SVG"
    /\ \E io \in {"none", "markup"} :
          IF io = "none"
          THEN /\ tasks' = [tasks EXCEPT ![i].st = "done"]
               /\ UNCHANGED log
          ELSE /\ tasks' = [tasks EXCEPT ![i].st = "failed", ![i].io = io]
               /\ log' = log \cup {TaskWarning(tasks[i], io)}
    /\ UNCHANGED <<files, format, file_idx, pc, status, fs>>
    /\ UNCHANGED <<chunkerVars, geometryVars, exportVars>>

\* generator.rs:134-166: write_png. write_header().unwrap() panics when the
\* header cannot be written (149); a failed write_image_data is printed
\* (154-157) and write_png returns Ok (165).
TaskWritePng(i) ==
    /\ tasks[i].st = "opened"
    /\ format = "PNG"
    /\ \E io \in {"none", "header", "data"} :
          tasks' = [tasks EXCEPT ![i].st = IF io = "header" THEN "panicked" ELSE "done",
                                 ![i].io = io]
    /\ UNCHANGED <<files, format, file_idx, pc, status, fs, log>>
    /\ UNCHANGED <<chunkerVars, geometryVars, exportVars>>

\* generator.rs:58-70: a closure that panics unwinds the worker out of the
\* sequence of records it was running, so a record of the batch that has not
\* started may never be run.
TaskAbandoned(i) ==
    /\ tasks[i].st = "queued"
    /\ \E j \in BatchTasks(tasks, tasks[i].file, tasks[i].batch) :
          tasks[j].st = "panicked"
    /\ tasks' = [tasks EXCEPT ![i].st = "abandoned"]
    /\ UNCHANGED <<files, format, file_idx, pc, status, fs, log>>
    /\ UNCHANGED <<chunkerVars, geometryVars, exportVars>>

\* A closure that is still running.
Running(t) == ~Terminal(t)

\* generator.rs:58-71: for_each returns once the batch is drained and the
\* loop asks for the next chunk; a panic of a closure is resumed on the main
\* thread, which unwinds out of process_file and generate: the run stops
\* with the batch as it is. Otherwise the iteration ends and the chunk and
\* the closures that are over are dropped.
JoinBatch ==
    /\ pc = "fanout"
    /\ BatchDrained(tasks, file_idx, Len(yielded))
    /\ pc' = IF \E i \in BatchTasks(tasks, file_idx, Len(yielded)) :
                    tasks[i].st = "panicked"
             THEN "panicked"
             ELSE "chunks"
    /\ tasks' = IF \E i \in BatchTasks(tasks, file_idx, Len(yielded)) :
                       tasks[i].st = "panicked"
                THEN tasks
                ELSE SelectSeq(tasks, Running)
    /\ UNCHANGED <<files, format, file_idx, status, log, fs>>
    /\ UNCHANGED <<chunkerVars, geometryVars, exportVars>>

\* generator.rs:44-50: the loop over the sources ends and generate returns.
GenerateReturns ==
    /\ pc = "generate"
    /\ file_idx > Len(files)
    /\ pc' = "done"
    /\ UNCHANGED <<files, format, file_idx, tasks, status, log, fs>>
    /\ UNCHANGED <<chunkerVars, geometryVars, exportVars>>

\* The identifiers (field 0) the rows of the pipeline carry.
Identifiers == {<<"a">>, <<"b">>}

\* The rows a source can hold: a row fails to decode, or decodes to one
\* field, or to two with one of the identifiers as field 0.
RowKinds ==
    {[ok |-> FALSE, len |-> 0, id |-> <<>>], [ok |-> TRUE, len |-> 1, id |-> <<"a">>]}
        \cup { [ok |-> TRUE, len |-> 2, id |-> d] : d \in Identifiers }

\* A row of two fields with the first identifier, at line i.
FullRow(i) == [line |-> i, ok |-> TRUE, len |-> 2, id |-> <<"a">>]

PipeRows(n) ==
    { [i \in 1..n |-> [line |-> i, ok |-> k[i].ok, len |-> k[i].len, id |-> k[i].id]] :
        k \in [1..n -> RowKinds] }

\* A source that cannot be opened is a missing file or a file with a row that
\* cannot be read; a source that can be opened holds any rows.
Sources ==
    { [openable |-> FALSE, rows |-> r] : r \in PipeRows(0) \cup {<<FullRow(1)>>} }
        \cup { [openable |-> TRUE, rows |-> r] :
                 r \in UNION { PipeRows(n) : n \in 0..MaxPipeRows } }

\* The lists of exactly n sources of size at most `budget` together, the size
\* of a source being one more than the number of its rows.
RECURSIVE FileLists(_, _)
FileLists(n, budget) ==
    IF n = 0 THEN {<<>>}
    ELSE UNION { { <<s>> \o rest :
                     rest \in FileLists(n - 1, budget - Len(s.rows) - 1) } :
                   s \in { t \in Sources : Len(t.rows) + 1 <= budget } }

\* The two identifiers are interchangeable, so only the runs whose first
\* eligible row carries <<"a">> are enumerated.
IdsInOrder(fl) ==
    \A f \in 1..Len(fl) : \A i \in 1..Len(fl[f].rows) :
        (Eligible(fl[f].rows[i]) /\ fl[f].rows[i].id # <<"a">>) =>
            \E g \in 1..f : \E j \in 1..Len(fl[g].rows) :
                /\ g < f \/ j < i
                /\ Eligible(fl[g].rows[j])
                /\ fl[g].rows[j].id = <<"a">>

\* generator.rs:28-40 Generator::new: the sources, the chunk size
\* (main.rs:171-178 keeps it positive) and the format.
InitPipeline ==
    /\ files \in { fl \in UNION { FileLists(n, MaxPipeRows + 1) : n \in 1..MaxFiles } :
                     IdsInOrder(fl) }
    /\ format \in {"SVG", "PNG"}
    /\ chunk_size \in 1..MaxPipeChunk
    /\ file_idx = 1
    /\ pc = "generate"
    /\ tasks = <<>>
    /\ status = [f \in 1..Len(files) |-> "pending"]
    /\ log = {}
    /\ fs = {}
    /\ inner_rows = <<>>
    /\ inner_pos = 0
    /\ yielded = <<>>
    /\ calls = <<>>
    /\ ended = FALSE
    /\ g_call = [fn |-> "none"]
    /\ g_out = <<"idle">>
    /\ x_in = [fn |-> "none"]
    /\ x_out = [res |-> "idle"]
    /\ ExporterIdle

NextPipeline ==
    \/ OpenSource
    \/ PullChunk
    \/ \E i \in 1..Len(tasks) : TaskEncode(i)
    \/ \E i \in 1..Len(tasks) : TaskOpen(i)
    \/ \E i \in 1..Len(tasks) : TaskWriteSvg(i)
    \/ \E i \in 1..Len(tasks) : TaskWritePng(i)
    \/ \E i \in 1..Len(tasks) : TaskAbandoned(i)
    \/ JoinBatch
    \/ GenerateReturns

Spec == InitPipeline /\ [][NextPipeline]_vars

(***************************************************************************)
(* Claims about the batching reader.                                       *)
(***************************************************************************)
RECURSIVE Flatten(_)
Flatten(ss) == IF ss = <<>> THEN <<>> ELSE Head(ss) \o Flatten(Tail(ss))

Decoded(rows) == SelectSeq(rows, IsOk)

AllDecoded(rows) == \A i \in 1..Len(rows) : rows[i].ok

CeilDiv(n, c) == (n + c - 1) \div c

\* C1: once Chunker::next has returned None, the concatenation of the batches
\* it yielded is exactly the sequence of successfully decoded rows of the
\* source, in order, none lost and none duplicated.
C1_LosslessPartition ==
    ended => Flatten(yielded) = Decoded(inner_rows)

\* C2: Chunker::next returns None only when the source has no more rows; a
\* call whose attempted reads all failed does not end the stream while rows
\* remain.
C2_NoneOnlyAtEndOfSource ==
    ended => inner_pos = Len(inner_rows)

\* C3: every yielded batch holds between 1 and chunk_size rows; every call
\* makes at most chunk_size attempted reads; a failed row is an attempt that
\* does not end the batch (the call reads on until chunk_size attempts or the
\* end of the source, and yields the decoded rows among them).
C3_BatchBounds ==
    /\ \A k \in 1..Len(yielded) :
          Len(yielded[k]) >= 1 /\ Len(yielded[k]) <= chunk_size
    /\ \A k \in 1..Len(calls) :
          /\ calls[k].reads <= chunk_size
          /\ calls[k].reads = Min(chunk_size, Len(inner_rows) - calls[k].start)
          /\ IsSome(calls[k].item) =>
                Unwrap(calls[k].item) =
                    Decoded(SubSeq(inner_rows, calls[k].start + 1,
                                   calls[k].start + calls[k].reads))

\* C3 witness: a call that met a failed row before a decoded one and still
\* yielded the decoded row in the same batch.
C3_Witness ==
    \E k \in 1..Len(calls) :
        /\ IsSome(calls[k].item)
        /\ calls[k].warns >= 1
        /\ calls[k].reads = chunk_size
        /\ ~inner_rows[calls[k].start + 1].ok
        /\ inner_rows[calls[k].start + calls[k].reads].ok

\* C4: for a source of n rows that all decode, batch k holds rows
\* (k-1)*c+1 .. min(k*c, n); when the stream has ended there are exactly
\* ceil(n/c) batches, every batch but the last has c rows, the last has
\* n - c*(ceil(n/c)-1) rows, and the call after the last batch returned None.
C4_ExactBatches ==
    AllDecoded(inner_rows) =>
        LET n == Len(inner_rows)
            c == chunk_size
        IN  /\ \A k \in 1..Len(yielded) :
                  yielded[k] = SubSeq(inner_rows, (k - 1) * c + 1, Min(k * c, n))
            /\ ended =>
                  /\ Len(yielded) = CeilDiv(n, c)
                  /\ \A k \in 1..(Len(yielded) - 1) : Len(yielded[k]) = c
                  /\ n > 0 => Len(yielded[Len(yielded)]) = n - c * (CeilDiv(n, c) - 1)
                  /\ Len(calls) = CeilDiv(n, c) + 1
                  /\ calls[Len(calls)].item = None

\* C4 witness: the source of the unit test (5 rows in batches of 2) read to the
\* end: two full batches and a last batch of one row.
C4_Witness ==
    /\ AllDecoded(inner_rows)
    /\ Len(inner_rows) = 5
    /\ chunk_size = 2
    /\ ended
    /\ Len(yielded) = 3
    /\ Len(yielded[3]) = 1

(***************************************************************************)
(* Exact arithmetic on naturals of any size, for stating what the checked  *)
(* operations must return: a natural is the sequence of its base-10000     *)
(* digits, least significant first.                                        *)
(***************************************************************************)
BigBase == 100 * 100

Digit(a, i) == IF i >= 1 /\ i <= Len(a) THEN a[i] ELSE 0

\* The natural v, 0 <= v <= I32Max, as three digits.
ToBig(v) == <<v % BigBase, (v \div BigBase) % BigBase, v \div (BigBase * BigBase)>>

RECURSIVE BigAddFrom(_, _, _, _)
BigAddFrom(a, b, i, carry) ==
    IF i > Max2Len(a, b) + 1 THEN <<>>
    ELSE LET t == Digit(a, i) + Digit(b, i) + carry
         IN  <<t % BigBase>> \o BigAddFrom(a, b, i + 1, t \div BigBase)

BigAdd(a, b) == BigAddFrom(a, b, 1, 0)

RECURSIVE ColumnSum(_, _, _, _)
ColumnSum(a, b, k, i) ==
    IF i > k THEN 0
    ELSE Digit(a, i) * Digit(b, k + 1 - i) + ColumnSum(a, b, k, i + 1)

RECURSIVE BigMulFrom(_, _, _, _)
BigMulFrom(a, b, k, carry) ==
    IF k > Len(a) + Len(b) THEN <<>>
    ELSE LET t == ColumnSum(a, b, k, 1) + carry
         IN  <<t % BigBase>> \o BigMulFrom(a, b, k + 1, t \div BigBase)

BigMul(a, b) == BigMulFrom(a, b, 1, 0)

RECURSIVE BigLeqFrom(_, _, _)
BigLeqFrom(a, b, i) ==
    IF i = 0 THEN TRUE
    ELSE IF Digit(a, i) < Digit(b, i) THEN TRUE
    ELSE IF Digit(a, i) > Digit(b, i) THEN FALSE
    ELSE BigLeqFrom(a, b, i - 1)

BigLeq(a, b) == BigLeqFrom(a, b, Max2Len(a, b))
BigEq(a, b) == BigLeq(a, b) /\ BigLeq(b, a)

FitsI32(big) == BigLeq(big, ToBig(I32Max))
Abs(v) == IF v < 0 THEN -v ELSE v

(***************************************************************************)
(* Claims about the geometry.                                              *)
(***************************************************************************)
Returned == g_out[1] = "returned"
Result == g_out[2]

\* The exact value (n + 2*border) * scale.
ExactSize(n, scale, border) ==
    BigMul(BigAdd(ToBig(n), BigMul(ToBig(2), ToBig(border))), ToBig(scale))

\* The exact value pixel_size * pixel_size * colour_depth (colour_depth an i32).
ExactLength(p, cd) ==
    BigMul(BigMul(ToBig(Abs(p)), ToBig(Abs(p))), ToBig(cd))

\* The result is Some of exactly the value `exact` when `exact` fits an i32,
\* and None when it does not.
ExactOrNone(result, exact) ==
    IF FitsI32(exact)
    THEN IsSome(result) /\ Unwrap(result) >= 0
                        /\ BigEq(ToBig(Unwrap(result)), exact)
    ELSE result = None

\* C6: for n > 0, border >= 0 and scale > 0, checked_size(n, scale, border)
\* is Some((n + 2*border) * scale), the exact value, when that value fits an
\* i32 and None when it does not; it is None as soon as one of the steps
\* 2*border, n + 2*border, (n + 2*border) * scale leaves the range.
C6_CheckedSizeExact ==
    (Returned /\ g_call.fn = "checked_size" /\ IsSome(g_call.self)) =>
        LET n == Unwrap(g_call.self)
            twice == BigMul(ToBig(2), ToBig(g_call.border))
            sum == BigAdd(ToBig(n), twice)
            exact == ExactSize(n, g_call.scale, g_call.border)
        IN  /\ ExactOrNone(Result, exact)
            /\ (~FitsI32(twice) \/ ~FitsI32(sum) \/ ~FitsI32(exact)) => Result = None

\* C6 witness: a call refused at the last step: n + 2*border fits an i32 and
\* its product with the scale does not.
C6_Witness ==
    /\ Returned /\ g_call.fn = "checked_size" /\ IsSome(g_call.self)
    /\ Result = None
    /\ FitsI32(BigAdd(ToBig(Unwrap(g_call.self)), BigMul(ToBig(2), ToBig(g_call.border))))
    /\ g_call.scale > 1
    /\ Unwrap(g_call.self) > 1

\* C7 as stated: checked_length(pixel_size, colour_depth) is
\* Some(pixel_size^2 * colour_depth) exactly when that value fits an i32, and
\* None when the colour depth does not fit an i32, when the square overflows
\* or when the product overflows.
C7_LengthSomeIffValueFits ==
    (Returned /\ g_call.fn = "checked_length" /\ IsSome(g_call.self)) =>
        LET p == Unwrap(g_call.self)
            cd == I32TryFromUsize(g_call.colour_depth)
        IN  /\ IsSome(cd) => ExactOrNone(Result, ExactLength(p, Unwrap(cd)))
            /\ ~IsSome(cd) => Result = None

\* C7 amended: checked_length is None when the colour depth does not fit an
\* i32, when the square does not fit or when the product does not fit, and
\* Some(pixel_size^2 * colour_depth), exactly, otherwise. When pixel_size # 0
\* and colour_depth >= 1 that is: Some exactly when the value fits an i32.
\* pixel_size 290 and depth 3 give 252300.
C7_CheckedLengthStaged ==
    (Returned /\ g_call.fn = "checked_length" /\ IsSome(g_call.self)) =>
        LET p == Unwrap(g_call.self)
            cd == I32TryFromUsize(g_call.colour_depth)
            square == BigMul(ToBig(Abs(p)), ToBig(Abs(p)))
        IN  /\ ~IsSome(cd) => Result = None
            /\ IsSome(cd) =>
                  LET exact == ExactLength(p, Unwrap(cd))
                  IN  /\ IF FitsI32(square) /\ FitsI32(exact)
                         THEN IsSome(Result) /\ Unwrap(Result) >= 0
                                /\ BigEq(ToBig(Unwrap(Result)), exact)
                         ELSE Result = None
                      /\ (p # 0 /\ Unwrap(cd) >= 1) => ExactOrNone(Result, exact)
            /\ (p = 290 /\ g_call.colour_depth = UsizeOf(3)) => Result = Some(252300)

\* C7 witness: the documented example has been computed.
C7_Witness ==
    /\ Returned /\ g_call.fn = "checked_length"
    /\ g_call.self = Some(290)
    /\ g_call.colour_depth = UsizeOf(3)
    /\ Result = Some(252300)

(***************************************************************************)
(* Claims about the rasterisation.                                         *)
(***************************************************************************)
Painted == x_out.res \in {"ok", "err_data"}

\* The pixel size (N + 2*border) * scale of the call, for the small
\* geometries that are painted.
PixelSize == (x_in.qr.size + 2 * x_in.border) * x_in.scale

\* The module a pixel maps back to is inside the matrix and set.
PixelIsDark(x, y) ==
    LET mx == (x \div x_in.scale) - x_in.border
        my == (y \div x_in.scale) - x_in.border
    IN  /\ mx \in 0..(x_in.qr.size - 1)
        /\ my \in 0..(x_in.qr.size - 1)
        /\ <<mx, my>> \in x_in.qr.dark

\* C8: after export_png has painted the canvas, the canvas holds
\* size*size*3 bytes and for every pixel (x, y) of the square the 3 bytes at
\* offset x*3 + y*size*3 are all 0 when the module (x / scale - border,
\* y / scale - border) is inside the matrix and set, and all 255 otherwise
\* (so every pixel is inspected, and the border stays background).
C8_CanvasMatchesMatrix ==
    Painted =>
        LET data == Unwrap(x_out.canvas)
        IN  /\ DOMAIN data = 0..(PixelSize * PixelSize * 3 - 1)
            /\ \A x \in 0..(PixelSize - 1), y \in 0..(PixelSize - 1) :
                  LET off == x * 3 + y * PixelSize * 3
                  IN  IF PixelIsDark(x, y)
                      THEN data[off] = 0 /\ data[off + 1] = 0 /\ data[off + 2] = 0
                      ELSE data[off] = 255 /\ data[off + 1] = 255 /\ data[off + 2] = 255

\* C8 witness: a painted canvas with a border, a scale above 1 and a code
\* whose dark modules lie on and off the diagonal, asymmetrically.
C8_Witness ==
    /\ Painted
    /\ x_in.border >= 1
    /\ x_in.scale >= 2
    /\ x_in.qr.size = 2
    /\ x_in.qr.dark = {<<0, 0>>, <<1, 0>>}
    /\ Unwrap(x_out.canvas)[offset_fn(4, 2, PixelSize, 3)] = 0
    /\ Unwrap(x_out.canvas)[offset_fn(2, 4, PixelSize, 3)] = 255

\* The geometry of the call is out of bounds: checked_size or checked_length
\* returns None.
GeometryIsNone ==
    LET size == checked_size(Some(x_in.qr.size), x_in.scale, x_in.border)
    IN  ~IsSome(size) \/ ~IsSome(checked_length(size, UsizeOf(ColourTypeSamples)))

\* C9: when checked_size or checked_length returns None, export_png returns
\* an error, allocates no canvas and writes nothing to the writer, neither a
\* header nor image data.
C9_OutOfBoundsWritesNothing ==
    (x_out.res # "idle" /\ GeometryIsNone) =>
        /\ x_out.res = "err_out_of_bounds"
        /\ x_out.canvas = None
        /\ x_out.writer = <<>>
        /\ ~x_out.header_written

\* C9 witness: a call whose byte length overflows although its pixel size
\* does not has returned the error.
C9_Witness ==
    /\ x_out.res = "err_out_of_bounds"
    /\ IsSome(checked_size(Some(x_in.qr.size), x_in.scale, x_in.border))
    /\ x_in.scale = LengthOverflowScale

(***************************************************************************)
(* Claims about the pipeline.                                              *)
(***************************************************************************)
Started(t) == t.st # "queued"
InFlight(ts) == { i \in 1..Len(ts) : ~Terminal(ts[i]) }

\* C5: no task of a later batch has started, and the Chunker has not been
\* asked for a later batch, before every task of the batch before it has
\* finished; so at most chunk_size records are in flight at any moment.
C5_BatchBarrier ==
    /\ \A i, j \in 1..Len(tasks) :
          (tasks[i].file = tasks[j].file /\ tasks[i].batch < tasks[j].batch)
              => Terminal(tasks[i])
    /\ \A i \in 1..Len(tasks) :
          (tasks[i].file = file_idx /\ tasks[i].batch < Len(yielded))
              => Terminal(tasks[i])
    /\ \A i \in 1..Len(tasks) :
          (tasks[i].file < file_idx \/ pc \in {"chunks", "generate", "done"})
              => Terminal(tasks[i])
    /\ Cardinality(InFlight(tasks)) <= chunk_size

\* C5 witness: the second batch of a source is running, a record of it in
\* flight, after the two tasks of the first batch have finished.
C5_Witness ==
    /\ pc = "fanout"
    /\ Len(yielded) = 2
    /\ chunk_size = 2
    /\ Len(SelectSeq(yielded[1], Eligible)) = 2
    /\ \E i \in 1..Len(tasks) : tasks[i].batch = 2 /\ tasks[i].st = "opened"

\* C10: a failure to open the output file or to write the PNG header, the
\* image data or the markup is returned as an error for that record and
\* logged as a warning naming it; no worker aborts; the other records of the
\* batch and the later batches are processed and the source ends completed.
C10_WriteFailureSkipsRecordOnly ==
    /\ \A i \in 1..Len(tasks) :
          (Terminal(tasks[i]) /\ tasks[i].io \in {"open", "header", "data", "markup"})
              => (tasks[i].st = "failed" /\ TaskWarning(tasks[i], tasks[i].io) \in log)
    /\ pc # "panicked"
    /\ \A i \in 1..Len(tasks) : tasks[i].st # "panicked"
    /\ pc = "done" =>
          /\ \A f \in 1..Len(files) : files[f].openable => status[f] = "completed"
          /\ \A i \in 1..Len(tasks) : Terminal(tasks[i])

\* The eligible rows of the sources, named as the closures name them.
EligibleRows ==
    UNION { { [file |-> f, line |-> files[f].rows[l].line, id |-> files[f].rows[l].id] :
                l \in { k \in 1..Len(files[f].rows) :
                          files[f].rows[k].ok /\ Eligible(files[f].rows[k]) } } :
            f \in 1..Len(files) }

\* The warning of a failed encode has been logged for the row.
EncodeFailed(r) == TaskWarning(r, "encode") \in log

\* C11: a record whose encode fails is skipped and only it: its closure
\* returns after logging a warning that names the record, and no output file
\* is owed to it (every output file belongs to a record whose encode did not
\* fail); a record of the batch whose encode and save succeed has its output
\* file; the failure aborts nothing: process_file stops early only when a
\* closure panicked writing a PNG header, the source of a failed encode is
\* never marked failed, and it is completed once generate has returned.
C11_EncodeFailureSkipsRecordOnly ==
    /\ \A i \in 1..Len(tasks) :
          tasks[i].io = "encode" =>
              /\ tasks[i].st = "failed"
              /\ TaskWarning(tasks[i], "encode") \in log
    /\ \A d \in Identifiers :
          OutputPath(OutputDir, d, format) \in fs =>
              \E r \in EligibleRows :
                  /\ ~EncodeFailed(r)
                  /\ OutputPath(OutputDir, r.id, format) = OutputPath(OutputDir, d, format)
    /\ \A path \in fs : \E d \in Identifiers : OutputPath(OutputDir, d, format) = path
    /\ \A i \in 1..Len(tasks) :
          (tasks[i].st = "done" /\ tasks[i].io = "none") =>
              TaskPath(tasks[i], format) \in fs
    /\ pc = "panicked" =>
          \E i \in 1..Len(tasks) : tasks[i].st = "panicked" /\ tasks[i].io = "header"
    /\ \A r \in EligibleRows :
          EncodeFailed(r) =>
              /\ status[r.file] # "failed"
              /\ pc = "done" => status[r.file] = "completed"

\* C11 witness: a run that has returned in which the first record of a batch
\* of two failed to encode and has no file, the second record of the batch
\* has its file, and a second batch followed.
C11_Witness ==
    /\ pc = "done"
    /\ Len(files) = 1
    /\ chunk_size = 2
    /\ Len(yielded) = 2
    /\ EncodeFailed([file |-> 1, line |-> 1, id |-> <<"a">>])
    /\ Len(files[1].rows) = 3
    /\ files[1].rows[2].id = <<"b">> /\ Eligible(files[1].rows[2])
    /\ OutputPath(OutputDir, <<"b">>, format) \in fs
    /\ OutputPath(OutputDir, <<"a">>, format) \notin fs
    /\ status[1] = "completed"

\* The row of source f read from line l.
RowAt(f, l) == files[f].rows[l]

\* The lines of the records of a sequence of rows or of closures.
Lines(seq) == [k \in 1..Len(seq) |-> seq[k].line]

HasTwoFields(row) == row.len >= 2

\* C12: a row with fewer than 2 fields is never handed to a closure, so it is
\* neither encoded nor saved: every closure runs a row of at least 2 fields,
\* every warning of a closure names such a row, and every output file is the
\* file of such a row. The rows of at least 2 fields of the batch are all
\* handed to closures, in order, and every one of them is run, except those
\* left behind when a closure of the batch panicked.
C12_ShortRowsFilteredSilently ==
    /\ \A i \in 1..Len(tasks) : HasTwoFields(RowAt(tasks[i].file, tasks[i].line))
    /\ \A w \in log : w.kind = "record" => HasTwoFields(RowAt(w.file, w.line))
    /\ \A path \in fs :
          \E f \in 1..file_idx : \E l \in 1..Len(files[f].rows) :
              /\ RowAt(f, l).ok /\ HasTwoFields(RowAt(f, l))
              /\ OutputPath(OutputDir, RowAt(f, l).id, format) = path
    /\ pc = "fanout" =>
          Lines(tasks) = Lines(SelectSeq(yielded[Len(yielded)], HasTwoFields))
    /\ \A i \in 1..Len(tasks) :
          tasks[i].st = "abandoned" =>
              \E j \in 1..Len(tasks) : tasks[j].st = "panicked"
    /\ pc \in {"chunks", "generate", "done"} => tasks = <<>>

\* C12 witness: a batch of a one-field row and a two-field row has been run:
\* one closure, for the two-field row, which wrote its file; nothing logged.
C12_Witness ==
    /\ pc = "fanout"
    /\ chunk_size = 2
    /\ Len(yielded[Len(yielded)]) = 2
    /\ ~HasTwoFields(yielded[Len(yielded)][1])
    /\ HasTwoFields(yielded[Len(yielded)][2])
    /\ Len(tasks) = 1
    /\ tasks[1].st = "done"
    /\ tasks[1].line = yielded[Len(yielded)][2].line
    /\ fs = {TaskPath(tasks[1], format)}
    /\ log = {}

\* The warning generate logs for a source it could not open.
SourceWarning(f) ==
    [kind |-> "source", file |-> f, line |-> 0, id |-> <<>>, err |-> "open"]

\* C13: the sources are visited in order, one at a time: those before
\* file_idx have ended, the others are pending. A source has ended failed
\* exactly when it could not be opened, and then its failure is logged and
\* no row of it is processed: no closure, no warning of a closure and no
\* output file comes from it. The failure stops nothing: generate is never
\* unwinding in a source that could not be opened, and once generate has
\* returned every source is completed or failed.
C13_UnopenableSourceSkipped ==
    /\ file_idx \in 1..(Len(files) + 1)
    /\ \A f \in 1..Len(files) :
          /\ status[f] # "pending" <=> f < file_idx
          /\ status[f] = "failed" <=> (f < file_idx /\ ~files[f].openable)
          /\ status[f] = "completed" <=> (f < file_idx /\ files[f].openable)
          /\ status[f] = "failed" <=> SourceWarning(f) \in log
    /\ \A i \in 1..Len(tasks) : files[tasks[i].file].openable /\ tasks[i].file = file_idx
    /\ \A w \in log : w.kind = "record" => files[w.file].openable
    /\ (\A f \in 1..Len(files) : f <= file_idx => ~files[f].openable) => fs = {}
    /\ pc \in {"chunks", "fanout", "panicked"} =>
          file_idx <= Len(files) /\ files[file_idx].openable
    /\ pc = "done" =>
          /\ file_idx = Len(files) + 1
          /\ \A f \in 1..Len(files) : status[f] \in {"completed", "failed"}

\* C13 witness: generate has returned after a first source that could not be
\* opened, whose row left nothing, and a second source whose row was saved.
C13_Witness ==
    /\ pc = "done"
    /\ Len(files) = 2
    /\ ~files[1].openable /\ Len(files[1].rows) = 1
    /\ files[2].openable /\ Len(files[2].rows) = 1
    /\ status = <<"failed", "completed">>
    /\ log = {SourceWarning(1)}
    /\ fs = {OutputPath(OutputDir, files[2].rows[1].id, format)}

\* The closure has its output file open: save has opened it and the write
\* has not returned.
HoldsFileOpen(t) == t.st = "opened"

\* C16: no two closures ever hold the same output file open for writing at
\* the same time, whatever the rows of the batch, rows of equal identifiers
\* included.
C16_SingleWriterPerFile ==
    \A i, j \in 1..Len(tasks) :
        (i # j /\ HoldsFileOpen(tasks[i]) /\ HoldsFileOpen(tasks[j])) =>
            TaskPath(tasks[i], format) # TaskPath(tasks[j], format)

(***************************************************************************)
(* Claims about Exporter::export.                                          *)
(***************************************************************************)
\* <output directory>/<name>.<ext>
DirNameExt(name, fmt) == OutputDir \o <<Sep>> \o name \o <<Dot>> \o Extension(fmt)

\* The path names a file directly under the output directory.
UnderOutputDir(p) ==
    /\ Len(p) > Len(OutputDir) + 1
    /\ SubSeq(p, 1, Len(OutputDir) + 1) = OutputDir \o <<Sep>>
    /\ \A k \in (Len(OutputDir) + 2)..Len(p) : p[k] # Sep

\* The call was made on an Exporter as Exporter::new builds it for a row.
OnNewExporter(e) == e.self.output = OutputDir

\* C14: the path export opens for a row is <output directory>/<field 0>.<ext>,
\* ext svg for SVG and png for PNG: it lies under the output directory, its
\* name is the identifier unchanged, and no other identifier maps to it.
C14_PathIsDirIdentifierExt ==
    \A k \in 1..Len(exports) :
        OnNewExporter(exports[k]) =>
            /\ exports[k].path = DirNameExt(exports[k].self.file_name,
                                            exports[k].self.format)
            /\ UnderOutputDir(exports[k].path)
            /\ \A other \in FileNames \ {exports[k].self.file_name} :
                  OutputPath(OutputDir, other, exports[k].self.format)
                      # exports[k].path

\* C15: any two calls of export with the same matrix, border, scale, format
\* and file name, on two Exporter values or on the same one, open the same
\* path and, when both succeed, leave byte-identical file content.
C15_ExportTwiceSamePathSameBytes ==
    \A j, k \in 1..Len(exports) :
        /\ exports[j].path = exports[k].path
        /\ (exports[j].res = "ok" /\ exports[k].res = "ok") =>
              exports[j].after[Unwrap(exports[j].file)]
                  = exports[k].after[Unwrap(exports[k].file)]

\* C17: after a successful vector export the target file holds exactly the
\* markup to_svg_string returned and nothing after it, whatever it held
\* before.
C17_SvgFileIsExactlyMarkup ==
    \A k \in 1..Len(exports) :
        (exports[k].self.format = "SVG" /\ exports[k].res = "ok") =>
            exports[k].after[Unwrap(exports[k].file)]
                = to_svg_string(exports[k].self.qr_code, exports[k].self.border)

\* C18: when a raster export fails with geometry out of bounds the files are
\* as they were before the call: no file created, none modified.
C18_OutOfBoundsLeavesFilesAsTheyWere ==
    \A k \in 1..Len(exports) :
        exports[k].res = "err_out_of_bounds" =>
            exports[k].after = exports[k].before

====
